---- MODULE Spec2Model ----
(***************************************************************************)
(* State model of the PC shop storefront (src/src/App.tsx): the cart store *)
(* of PCShop, its persistence to localStorage['pcshop_cart'], the          *)
(* 'pcshop_cart_refresh' signal that CartDrawer dispatches, the CartPanel  *)
(* snapshot that re-reads storage on that signal, and the compare          *)
(* selection.                                                              *)
(*                                                                         *)
(* Scheduling is React's (createRoot): a discrete event handler queues a   *)
(* state updater; React then renders and runs the passive effects of that  *)
(* commit before the browser takes the next task, the effects of a child   *)
(* component (CartDrawer) before those of its parent (PCShop).  Timers and *)
(* events of other documents are separate tasks and run only between       *)
(* such flushes.                                                           *)
(***************************************************************************)
EXTENDS Integers, Sequences, FiniteSets, TLC

VARIABLES
    pc,          \* position of the React flush: boot, render, drawerEffect, persistEffect, idle, crashed
    cart,        \* PCShop's `cart` state: a JS object, as its entries in property order
    pending,     \* the state updater queued by the running handler
    cartChanged, \* the commit being flushed changed `cart` (dependency of the persist effect)
    storage,     \* localStorage['pcshop_cart'] as a token sequence; <<>> is absent (or '')
    foreign,     \* the record was last written by another document
    apiSet,      \* window.pcshop_setQty / window.pcshop_remove are assigned
    open,        \* CartButton's `open` state: the CartPanel is mounted and listening
    panelCart,   \* CartPanel's own `cart` snapshot
    timers,      \* pending setTimeout(..., 0) callbacks of CartPanel
    selected,    \* PCShop's `selected` state (compare list)
    lastOp,      \* history: the last cart updater applied, and the cart it was applied to
    lastRead,    \* history: who read the storage record last, whether it was malformed, whether the read threw
    lastToggle,  \* history: the last toggleSelect applied, and the selection before it
    query,       \* PCShop's `query` state, a string
    minRam,      \* PCShop's `minRam` state
    sort,        \* PCShop's `sort` state
    lastClick    \* history: the button that issued the last cart intent

vars == <<pc, cart, pending, cartChanged, storage, foreign, apiSet, open,
          panelCart, timers, selected, lastOp, lastRead, lastToggle,
          query, minRam, sort, lastClick>>

queryVars == <<query, minRam, sort>>

----------------------------------------------------------------------------
(* Bounds *)

\* largest quantity a cart entry is driven to
MaxQty == 2
\* largest quantity found in the record at startup
MaxStoredQty == 1
\* most CartPanel timers pending at once
MaxTimers == 2

\* products that are put in the cart
CartIds == {"A", "B"}

----------------------------------------------------------------------------
(* Catalog *)

\* strings are sequences of characters; a Hangul syllable is written U+xxxx
ProductA ==
    [id |-> "A", name |-> "A", price |-> 1000000, hasTags |-> FALSE, tags |-> <<>>,
     title   |-> <<"A", " ", "U+CEF4", "U+D4E8", "U+D130">>,
     cpu     |-> <<"U+C778", "U+D154", " ", "i", "9", "-", "1", "4", "9", "0", "0", "K">>,
     gpu     |-> <<"N", "V", "I", "D", "I", "A", " ", "R", "T", "X", " ", "5", "0", "9",
                   "0">>,
     ram     |-> <<"1", "2", "8", "G", "B", " ", "D", "D", "R", "5">>,
     storage |-> <<"N", "V", "M", "e", " ", "S", "S", "D", " ", "4", "T", "B">>]

ProductB ==
    [id |-> "B", name |-> "B", price |-> 1000000, hasTags |-> FALSE, tags |-> <<>>,
     title   |-> <<"B", " ", "U+CEF4", "U+D4E8", "U+D130">>,
     cpu     |-> <<"U+C778", "U+D154", " ", "i", "7", "-", "1", "4", "7", "0", "0", "K">>,
     gpu     |-> <<"N", "V", "I", "D", "I", "A", " ", "R", "T", "X", " ", "4", "0", "8",
                   "0", " ", "S", "u", "p", "e", "r">>,
     ram     |-> <<"6", "4", "G", "B", " ", "D", "D", "R", "5">>,
     storage |-> <<"N", "V", "M", "e", " ", "S", "S", "D", " ", "2", "T", "B">>]

ProductC ==
    [id |-> "C", name |-> "C", price |-> 1000000, hasTags |-> FALSE, tags |-> <<>>,
     title   |-> <<"C", " ", "U+CEF4", "U+D4E8", "U+D130">>,
     cpu     |-> <<"U+C778", "U+D154", " ", "i", "5", "-", "1", "4", "6", "0", "0", "K">>,
     gpu     |-> <<"N", "V", "I", "D", "I", "A", " ", "R", "T", "X", " ", "4", "0", "7",
                   "0", " ", "T", "i">>,
     ram     |-> <<"3", "2", "G", "B", " ", "D", "D", "R", "5">>,
     storage |-> <<"N", "V", "M", "e", " ", "S", "S", "D", " ", "1", "T", "B">>]

ProductD ==
    [id |-> "D", name |-> "D", price |-> 1000000, hasTags |-> FALSE, tags |-> <<>>,
     title   |-> <<"D", " ", "U+CEF4", "U+D4E8", "U+D130">>,
     cpu     |-> <<"U+C778", "U+D154", " ", "i", "5", "-", "1", "3", "4", "0", "0", "F">>,
     gpu     |-> <<"N", "V", "I", "D", "I", "A", " ", "R", "T", "X", " ", "3", "0", "6",
                   "0">>,
     ram     |-> <<"1", "6", "G", "B", " ", "D", "D", "R", "4">>,
     storage |-> <<"N", "V", "M", "e", " ", "S", "S", "D", " ", "5", "1", "2", "G", "B">>]

ProductE ==
    [id |-> "E", name |-> "E", price |-> 1000000, hasTags |-> FALSE, tags |-> <<>>,
     title   |-> <<"E", " ", "U+CEF4", "U+D4E8", "U+D130">>,
     cpu     |-> <<"U+C778", "U+D154", " ", "i", "3", "-", "1", "3", "1", "0", "0">>,
     gpu     |-> <<"I", "n", "t", "e", "l", " ", "U", "H", "D", " ", "G", "r", "a", "p",
                   "h", "i", "c", "s", " ", "7", "3", "0">>,
     ram     |-> <<"8", "G", "B", " ", "D", "D", "R", "4">>,
     storage |-> <<"S", "S", "D", " ", "2", "5", "6", "G", "B">>]

ProductF ==
    [id |-> "F", name |-> "F", price |-> 1000000, hasTags |-> FALSE, tags |-> <<>>,
     title   |-> <<"F", " ", "U+CEF4", "U+D4E8", "U+D130">>,
     cpu     |-> <<"U+C778", "U+D154", " ", "P", "e", "n", "t", "i", "u", "m", " ", "G",
                   "6", "4", "0", "0">>,
     gpu     |-> <<"I", "n", "t", "e", "l", " ", "U", "H", "D", " ", "G", "r", "a", "p",
                   "h", "i", "c", "s", " ", "6", "1", "0">>,
     ram     |-> <<"4", "G", "B", " ", "D", "D", "R", "4">>,
     storage |-> <<"S", "S", "D", " ", "1", "2", "8", "G", "B">>]

PRODUCTS == <<ProductA, ProductB, ProductC, ProductD, ProductE, ProductF>>

\* PRODUCTS.find((x) => x.id === id): its index, 0 when there is none
FindProduct(id) ==
    IF \E i \in 1..Len(PRODUCTS) : PRODUCTS[i].id = id
    THEN CHOOSE i \in 1..Len(PRODUCTS) :
            /\ PRODUCTS[i].id = id
            /\ \A j \in 1..(i - 1) : PRODUCTS[j].id # id
    ELSE 0

CatalogIds == <<"A", "B", "C", "D", "E", "F">>

IsCatalogId(id) == \E i \in 1..Len(CatalogIds) : CatalogIds[i] = id

----------------------------------------------------------------------------
(* Strings *)

UpperCase == <<"A", "B", "C", "D", "E", "F", "G", "H", "I", "J", "K", "L", "M",
               "N", "O", "P", "Q", "R", "S", "T", "U", "V", "W", "X", "Y", "Z">>

LowerCase == <<"a", "b", "c", "d", "e", "f", "g", "h", "i", "j", "k", "l", "m",
               "n", "o", "p", "q", "r", "s", "t", "u", "v", "w", "x", "y", "z">>

Digits == <<"0", "1", "2", "3", "4", "5", "6", "7", "8", "9">>

IndexIn(seq, c) == CHOOSE i \in 1..Len(seq) : seq[i] = c

IsIn(seq, c) == \E i \in 1..Len(seq) : seq[i] = c

ToLowerChar(c) == IF IsIn(UpperCase, c) THEN LowerCase[IndexIn(UpperCase, c)] ELSE c

\* String.prototype.toLowerCase
toLowerCase(str) == [i \in 1..Len(str) |-> ToLowerChar(str[i])]

\* String.prototype.trim
trim(str) ==
    IF \A i \in 1..Len(str) : str[i] = " " THEN <<>>
    ELSE LET first == CHOOSE i \in 1..Len(str) :
                        str[i] # " " /\ \A j \in 1..(i - 1) : str[j] = " "
             last  == CHOOSE i \in 1..Len(str) :
                        str[i] # " " /\ \A j \in (i + 1)..Len(str) : str[j] = " "
         IN  SubSeq(str, first, last)

\* String.prototype.includes
includes(text, q) ==
    \E i \in 0..(Len(text) - Len(q)) : SubSeq(text, i + 1, i + Len(q)) = q

RECURSIVE DigitsValue(_, _)
\* parseInt(digits, 10), most significant digit first
DigitsValue(str, acc) ==
    IF str = <<>> THEN acc
    ELSE DigitsValue(Tail(str), 10 * acc + (IndexIn(Digits, Head(str)) - 1))

\* /([0-9]+)GB/i matches str[i..k] followed by "GB"
RamMatch(str, i, k) ==
    /\ i <= k
    /\ k + 2 <= Len(str)
    /\ \A j \in i..k : IsIn(Digits, str[j])
    /\ ToLowerChar(str[k + 1]) = "g"
    /\ ToLowerChar(str[k + 2]) = "b"

\* const m = /([0-9]+)GB/i.exec(ram || ''); return m ? parseInt(m[1], 10) : 0
parseRamGB(ram) ==
    IF \E i \in 1..Len(ram), k \in 1..Len(ram) : RamMatch(ram, i, k)
    THEN LET i0 == CHOOSE i \in 1..Len(ram) :
                      /\ \E k \in 1..Len(ram) : RamMatch(ram, i, k)
                      /\ \A j \in 1..(i - 1) : ~\E k \in 1..Len(ram) : RamMatch(ram, j, k)
             k0 == CHOOSE k \in 1..Len(ram) :
                      /\ RamMatch(ram, i0, k)
                      /\ \A l \in (k + 1)..Len(ram) : ~RamMatch(ram, i0, l)
         IN  DigitsValue(SubSeq(ram, i0, k0), 0)
    ELSE 0

\* faulty variant: the value is compared as written, without toLowerCase
tierMap_CaseSensitive(value, order) ==
    IF \E i \in 1..Len(order) : includes(value, order[i])
    THEN (CHOOSE i \in 1..Len(order) :
            includes(value, order[i]) /\ \A j \in 1..(i - 1) : ~includes(value, order[j])) - 1
    ELSE Len(order)

\* order.findIndex((k) => value?.toLowerCase().includes(k.toLowerCase())), order.length for -1
tierMap(value, order) ==
    IF \E i \in 1..Len(order) : includes(toLowerCase(value), toLowerCase(order[i]))
    THEN (CHOOSE i \in 1..Len(order) :
            /\ includes(toLowerCase(value), toLowerCase(order[i]))
            /\ \A j \in 1..(i - 1) : ~includes(toLowerCase(value), toLowerCase(order[j]))) - 1
    ELSE Len(order)

CpuTiers == <<<<"i", "9">>,
             <<"i", "7">>,
             <<"i", "5">>,
             <<"i", "3">>,
             <<"p", "e", "n", "t", "i", "u", "m">>,
             <<"c", "e", "l", "e", "r", "o", "n">>>>

GpuTiers == <<<<"5", "0", "9", "0">>,
             <<"4", "0", "9", "0">>,
             <<"4", "0", "8", "0">>,
             <<"4", "0", "7", "0">>,
             <<"4", "0", "6", "0">>,
             <<"3", "0", "6", "0">>,
             <<"u", "h", "d", " ", "7">>,
             <<"u", "h", "d", " ", "6">>,
             <<"i", "n", "t", "e", "l", " ", "u", "h", "d">>>>

cpuTier(cpu) == tierMap(cpu, CpuTiers)

gpuTier(gpu) == tierMap(gpu, GpuTiers)

----------------------------------------------------------------------------
(* Query engine: the `filtered` memo of PCShop *)

SortKeys == {"featured", "price", "cpu", "gpu", "ram", "name"}

\* the range input: min 0, max 128, step 8
RamSteps == {8 * k : k \in 0..16}

\* what is typed in the search box
Queries == {<<>>,
            <<" ">>,
            <<"i", "7">>,
            <<" ", "I", "7", " ">>,
            <<"4", "0", "7", "0">>,
            <<"3", "2", "g", "b">>,
            <<"u", "n", "d", "e", "f", "i", "n", "e", "d">>,
            <<"z", "z", "z">>}

RECURSIVE JoinTags(_, _)
\* tags.join(' ')
JoinTags(tags, i) ==
    IF i > Len(tags) THEN <<>>
    ELSE tags[i] \o (IF i < Len(tags) THEN <<" ">> ELSE <<>>) \o JoinTags(tags, i + 1)

\* `${p.tags?.join(' ')}`: without tags the template prints undefined
TagsText(p) ==
    IF p.hasTags THEN JoinTags(p.tags, 1)
    ELSE <<"u", "n", "d", "e", "f", "i", "n", "e", "d">>

\* `${p.title} ${p.cpu} ${p.gpu} ${p.ram} ${p.storage} ${p.tags?.join(' ')}`.toLowerCase()
ProductText(p) ==
    toLowerCase(p.title \o <<" ">> \o p.cpu \o <<" ">> \o p.gpu \o <<" ">> \o p.ram
                \o <<" ">> \o p.storage \o <<" ">> \o TagsText(p))

\* the predicate of PRODUCTS.filter
Keeps(p, q0, m) ==
    LET q == toLowerCase(trim(q0))
    IN  /\ (IF q # <<>> THEN includes(ProductText(p), q) ELSE TRUE)
        /\ parseRamGB(p.ram) >= m

\* a.name.localeCompare(b.name, 'ko') on the one-letter names
localeCompare(a, b) ==
    IF IndexIn(UpperCase, a) < IndexIn(UpperCase, b) THEN -1
    ELSE IF IndexIn(UpperCase, a) > IndexIn(UpperCase, b) THEN 1 ELSE 0

\* faulty variant: RAM ascending
compare_RamAscending(key, a, b) ==
    CASE key = "price" -> a.price - b.price
      [] key = "cpu"   -> cpuTier(a.cpu) - cpuTier(b.cpu)
      [] key = "gpu"   -> gpuTier(a.gpu) - gpuTier(b.gpu)
      [] key = "ram"   -> parseRamGB(a.ram) - parseRamGB(b.ram)
      [] key = "name"  -> localeCompare(a.name, b.name)
      [] OTHER         -> 0

\* the comparator handed to sort
compare(key, a, b) ==
    CASE key = "price" -> a.price - b.price
      [] key = "cpu"   -> cpuTier(a.cpu) - cpuTier(b.cpu)
      [] key = "gpu"   -> gpuTier(a.gpu) - gpuTier(b.gpu)
      [] key = "ram"   -> parseRamGB(b.ram) - parseRamGB(a.ram)
      [] key = "name"  -> localeCompare(a.name, b.name)
      [] OTHER         -> 0

InsertAt(list, j, x) == SubSeq(list, 1, j - 1) \o <<x>> \o SubSeq(list, j, Len(list))

\* faulty variant: x goes before the elements it ties with
InsertSorted_BeforeTies(acc, x, key) ==
    IF \E j \in 1..Len(acc) : compare(key, x, acc[j]) <= 0
    THEN InsertAt(acc,
                  CHOOSE j \in 1..Len(acc) :
                      /\ compare(key, x, acc[j]) <= 0
                      /\ \A l \in 1..(j - 1) : compare(key, x, acc[l]) > 0,
                  x)
    ELSE Append(acc, x)

\* Array.prototype.sort is stable: x goes before the first element it is less than
InsertSorted(acc, x, key) ==
    IF \E j \in 1..Len(acc) : compare(key, x, acc[j]) < 0
    THEN InsertAt(acc,
                  CHOOSE j \in 1..Len(acc) :
                      /\ compare(key, x, acc[j]) < 0
                      /\ \A l \in 1..(j - 1) : compare(key, x, acc[l]) >= 0,
                  x)
    ELSE Append(acc, x)

RECURSIVE SortFrom(_, _, _, _)
SortFrom(list, i, key, acc) ==
    IF i > Len(list) THEN acc
    ELSE SortFrom(list, i + 1, key, InsertSorted(acc, list[i], key))

\* [...list].sort(comparator)
sorted(list, key) == SortFrom(list, 1, key, <<>>)

\* useMemo(() => { filter; sort }, [query, minRam, sort])
filtered(q0, m, key) == sorted(SelectSeq(PRODUCTS, LAMBDA p : Keeps(p, q0, m)), key)

----------------------------------------------------------------------------
(* JS objects Record<string, number>: entries in insertion order *)

EmptyObj == <<>>

Entry(id, qty) == [id |-> id, qty |-> qty]

Has(o, id) == \E i \in 1..Len(o) : o[i].id = id

Get(o, id) == o[CHOOSE i \in 1..Len(o) : o[i].id = id].qty

\* { ...o, [id]: v }: an existing key keeps its place, a new key goes last
Put(o, id, v) ==
    IF Has(o, id)
    THEN [i \in 1..Len(o) |-> IF o[i].id = id THEN Entry(id, v) ELSE o[i]]
    ELSE Append(o, Entry(id, v))

\* delete o[id]
Delete(o, id) == SelectSeq(o, LAMBDA e : e.id # id)

Keys(o) == {o[i].id : i \in 1..Len(o)}

\* two objects hold the same mapping
SameMapping(o1, o2) ==
    /\ Keys(o1) = Keys(o2)
    /\ \A id \in Keys(o1) : Get(o1, id) = Get(o2, id)

RECURSIVE SumQty(_, _)
SumQty(o, i) == IF i > Len(o) THEN 0 ELSE o[i].qty + SumQty(o, i + 1)

\* Object.values(cart).reduce((a, b) => a + b, 0)
totalItems(o) == SumQty(o, 1)

RECURSIVE SumPrice(_, _)
SumPrice(o, i) ==
    IF i > Len(o) THEN 0
    ELSE (IF FindProduct(o[i].id) # 0
          THEN PRODUCTS[FindProduct(o[i].id)].price * o[i].qty
          ELSE 0) + SumPrice(o, i + 1)

\* faulty variant: an entry whose id is not in the catalog is charged like product A
totalPrice_ChargeUnknown(o) == SumQty(o, 1) * PRODUCTS[1].price

\* Object.entries(cart).reduce((sum, [id, qty]) => { p = find; return p ? sum + p.price * qty : sum }, 0)
totalPrice(o) == SumPrice(o, 1)

\* CartPanel: entries.reduce((sum, [id, q]) => { p = find; return p ? sum + p.price * q : sum }, 0)
panelTotal(o) == SumPrice(o, 1)

\* CartPanel renders a row per entry from PRODUCTS.find(...)!: p.img throws when the
\* id is not in the catalog
PanelRenders(o) == \A i \in 1..Len(o) : FindProduct(o[i].id) # 0

----------------------------------------------------------------------------
(* JSON text of the record, as tokens *)

Punct == {"{", "}", ":", ",", "null"}

Numeral(n) == ToString(n)

IsNumeral(tok) == \E n \in 0..MaxQty : Numeral(n) = tok

ParseInt(tok) == CHOOSE n \in 0..MaxQty : Numeral(n) = tok

IsKey(tok) == tok \notin Punct /\ ~IsNumeral(tok)

RECURSIVE EntriesText(_, _)
EntriesText(o, i) ==
    IF i > Len(o) THEN <<>>
    ELSE <<o[i].id, ":", Numeral(o[i].qty)>>
         \o (IF i < Len(o) THEN <<",">> ELSE <<>>)
         \o EntriesText(o, i + 1)

\* JSON.stringify(cart)
JSONStringify(o) == <<"{">> \o EntriesText(o, 1) \o <<"}">>

NumEntries(t) == (Len(t) - 1) \div 4

IsObjectText(t) ==
    /\ Len(t) >= 2
    /\ t[1] = "{"
    /\ t[Len(t)] = "}"
    /\ \/ Len(t) = 2
       \/ /\ (Len(t) - 1) % 4 = 0
          /\ \A k \in 0..(NumEntries(t) - 1) :
                /\ IsKey(t[2 + 4 * k])
                /\ t[3 + 4 * k] = ":"
                /\ IsNumeral(t[4 + 4 * k])
                /\ t[5 + 4 * k] = (IF k = NumEntries(t) - 1 THEN "}" ELSE ",")

RECURSIVE BuildObj(_, _, _)
BuildObj(t, k, acc) ==
    IF k >= NumEntries(t) THEN acc
    ELSE BuildObj(t, k + 1, Put(acc, t[2 + 4 * k], ParseInt(t[4 + 4 * k])))

\* JSON.parse(text): threw, or the value (null, or an object)
JSONParse(t) ==
    IF t = <<"null">> THEN [threw |-> FALSE, isNull |-> TRUE, obj |-> EmptyObj]
    ELSE IF IsObjectText(t)
         THEN [threw |-> FALSE, isNull |-> FALSE,
               obj |-> IF Len(t) = 2 THEN EmptyObj ELSE BuildObj(t, 0, EmptyObj)]
         ELSE [threw |-> TRUE, isNull |-> FALSE, obj |-> EmptyObj]

\* localStorage.getItem('pcshop_cart') || '{}'
GetItemOrEmpty(text) == IF text = <<>> THEN <<"{", "}">> ELSE text

\* try { return JSON.parse(getItem || '{}') } catch { return {} }
LoadCart(text) ==
    LET r == JSONParse(GetItemOrEmpty(text))
    IN  IF r.threw THEN [threw |-> FALSE, isNull |-> FALSE, obj |-> EmptyObj] ELSE r

\* JSON.parse(getItem || '{}') with no handler around it
SyncRead(text) == JSONParse(GetItemOrEmpty(text))

----------------------------------------------------------------------------
(* Cart updaters of PCShop *)

\* faulty variant: the entry is overwritten with qty instead of incremented
addToCartUpd_Overwrite(prev, id, qty) == Put(prev, id, qty)

\* prev => ({ ...prev, [id]: (prev[id] || 0) + qty })
addToCartUpd(prev, id, qty) ==
    Put(prev, id, (IF Has(prev, id) /\ Get(prev, id) # 0 THEN Get(prev, id) ELSE 0) + qty)

\* faulty variant: the entry is deleted from a fresh object instead of a copy of prev
removeFromCartUpd_Fresh(prev, id) == Delete(EmptyObj, id)

\* prev => { const next = { ...prev }; delete next[id]; return next }
removeFromCartUpd(prev, id) == Delete(prev, id)

\* faulty variant: the guard is qty < 0, so setQty(id, 0) stores an entry of 0
setQtyUpd_OffByOne(prev, id, qty) ==
    IF qty < 0 THEN removeFromCartUpd(prev, id) ELSE Put(prev, id, qty)

\* faulty variant: qty is added to the entry instead of replacing it
setQtyUpd_Additive(prev, id, qty) ==
    IF qty <= 0 THEN removeFromCartUpd(prev, id)
    ELSE Put(prev, id, (IF Has(prev, id) THEN Get(prev, id) ELSE 0) + qty)

\* if (qty <= 0) return removeFromCart(id); setCart(prev => ({ ...prev, [id]: qty }))
setQtyUpd(prev, id, qty) ==
    IF qty <= 0 THEN removeFromCartUpd(prev, id) ELSE Put(prev, id, qty)

\* prev.includes(id) ? prev.filter(x => x !== id) : prev.length >= 3 ? prev : [...prev, id]
MaxSelected == 3

Includes(s, id) == \E i \in 1..Len(s) : s[i] = id

\* faulty variant: the length check is missing
toggleSelectUpd_NoLimit(prev, id) ==
    IF Includes(prev, id) THEN SelectSeq(prev, LAMBDA x : x # id) ELSE Append(prev, id)

\* faulty variant: a full selection evicts its oldest id
toggleSelectUpd_Evict(prev, id) ==
    IF Includes(prev, id) THEN SelectSeq(prev, LAMBDA x : x # id)
    ELSE IF Len(prev) >= MaxSelected THEN Append(Tail(prev), id)
    ELSE Append(prev, id)

toggleSelectUpd(prev, id) ==
    IF Includes(prev, id) THEN SelectSeq(prev, LAMBDA x : x # id)
    ELSE IF Len(prev) >= MaxSelected THEN prev
    ELSE Append(prev, id)

NoUpdate == [intent |-> "none", id |-> "", qty |-> 0]

\* setQuery(text) / setMinRam(gb) / setSort(key), or the three of onReset at once
QueryUpdate(intent, text, gb, key) ==
    [intent |-> intent, id |-> "", qty |-> 0, text |-> text, gb |-> gb, key |-> key]

ApplyQuery(u, prev) ==
    CASE u.intent = "setQuery"     -> u.text
      [] u.intent = "resetFilters" -> u.text
      [] OTHER                     -> prev

ApplyMinRam(u, prev) ==
    CASE u.intent = "setMinRam"    -> u.gb
      [] u.intent = "resetFilters" -> u.gb
      [] OTHER                     -> prev

ApplySort(u, prev) ==
    CASE u.intent = "setSort"      -> u.key
      [] u.intent = "resetFilters" -> u.key
      [] OTHER                     -> prev

Update(intent, id, qty) == [intent |-> intent, id |-> id, qty |-> qty]

IsCartIntent(u) == u.intent \in {"addToCart", "setQty", "removeFromCart"}

ApplyCart(u, prev) ==
    CASE u.intent = "addToCart"      -> addToCartUpd(prev, u.id, u.qty)
      [] u.intent = "setQty"         -> setQtyUpd(prev, u.id, u.qty)
      [] u.intent = "removeFromCart" -> removeFromCartUpd(prev, u.id)
      [] OTHER                       -> prev

ApplySelected(u, prev) ==
    CASE u.intent = "toggleSelect"   -> toggleSelectUpd(prev, u.id)
      [] u.intent = "clearSelection" -> <<>>
      [] OTHER                       -> prev

----------------------------------------------------------------------------
(* Storage contents *)

Garbage == <<"{", "A">>

\* an id of no product (left by an earlier catalog)
UnknownId == "Z"

\* objects with at most one entry over CartIds, quantities 0..MaxStoredQty, and one
\* with an entry for an id that is not in the catalog
StoredObjects ==
    {EmptyObj, <<Entry(UnknownId, 1)>>}
    \cup {<<Entry(a, q)>> : a \in CartIds, q \in 0..MaxStoredQty}

InitialStorage ==
    {<<>>, Garbage, <<"null">>} \cup {JSONStringify(o) : o \in StoredObjects}

\* what another document of the origin writes under the key
ForeignTexts == {Garbage, JSONStringify(<<Entry("B", 1)>>)}

\* absent or malformed: unparseable, or not a mapping from id to integer >= 1
Malformed(text) ==
    \/ text = <<>>
    \/ JSONParse(text).threw
    \/ JSONParse(text).isNull
    \/ \E i \in 1..Len(JSONParse(text).obj) : JSONParse(text).obj[i].qty < 1

NoRead == [by |-> "none", malformed |-> FALSE, threw |-> FALSE]

Read(by, text, r) == [by |-> by, malformed |-> Malformed(text), threw |-> r.threw]

NoOp == [intent |-> "none", id |-> "", qty |-> 0, before |-> EmptyObj]

NoToggle == [id |-> "", before |-> <<>>]

----------------------------------------------------------------------------
(* Initial state: the page is loaded, nothing is mounted yet *)

Init ==
    /\ pc = "boot"
    /\ storage \in InitialStorage
    /\ cart = EmptyObj
    /\ pending = NoUpdate
    /\ cartChanged = FALSE
    /\ foreign = FALSE
    /\ apiSet = FALSE
    /\ open = FALSE
    /\ panelCart = EmptyObj
    /\ timers = 0
    /\ selected = <<>>
    /\ lastOp = NoOp
    /\ lastRead = NoRead
    /\ lastToggle = NoToggle
    /\ query = <<>>
    /\ minRam = 0
    /\ sort = "featured"
    /\ lastClick = "none"

----------------------------------------------------------------------------
(* The 'pcshop_cart_refresh' / 'storage' listener of CartPanel *)

\* faulty variant: the listener also sets a state of PCShop, which renders again
Sync_Rerender(by, next) ==
    LET r == SyncRead(storage')
    IN  IF open
        THEN /\ lastRead' = Read(by, storage', r)
             /\ panelCart' = (IF r.threw \/ r.isNull THEN panelCart ELSE r.obj)
             /\ pc' = (IF r.isNull \/ ~PanelRenders(r.obj) THEN "crashed" ELSE "render")
        ELSE /\ UNCHANGED <<lastRead, panelCart>>
             /\ pc' = next

\* sync: setCartState(JSON.parse(getItem || '{}')); a throw leaves the snapshot as it
\* was, null makes the next render of CartPanel throw in Object.entries, an entry of
\* no product makes it throw in its row
Sync(by, next) ==
    LET r == SyncRead(storage')
    IN  IF open
        THEN /\ lastRead' = Read(by, storage', r)
             /\ panelCart' = (IF r.threw \/ r.isNull THEN panelCart ELSE r.obj)
             /\ pc' = (IF r.isNull \/ ~PanelRenders(r.obj) THEN "crashed" ELSE next)
        ELSE /\ UNCHANGED <<lastRead, panelCart>>
             /\ pc' = next

----------------------------------------------------------------------------
(* PCShop mounts: useState initialiser and first render *)

Mount ==
    /\ UNCHANGED <<queryVars, lastClick>>
    /\ pc = "boot"
    /\ LET r == LoadCart(storage)
       IN  /\ lastRead' = Read("PCShop", storage, r)
           /\ cart' = r.obj
           /\ pc' = (IF r.isNull THEN "crashed" ELSE "drawerEffect")
    /\ cartChanged' = TRUE
    /\ UNCHANGED <<pending, storage, foreign, apiSet, open, panelCart, timers,
                   selected, lastOp, lastToggle>>

\* PCShop re-renders: the queued updater is applied
PCShopRender ==
    /\ UNCHANGED lastClick
    /\ query' = ApplyQuery(pending, query)
    /\ minRam' = ApplyMinRam(pending, minRam)
    /\ sort' = ApplySort(pending, sort)
    /\ pc = "render"
    /\ cart' = ApplyCart(pending, cart)
    /\ selected' = ApplySelected(pending, selected)
    /\ cartChanged' = IsCartIntent(pending)
    /\ lastOp' = (IF IsCartIntent(pending)
                  THEN [intent |-> pending.intent, id |-> pending.id,
                        qty |-> pending.qty, before |-> cart]
                  ELSE lastOp)
    /\ lastToggle' = (CASE pending.intent = "toggleSelect" ->
                               [id |-> pending.id, before |-> selected]
                        [] pending.intent = "clearSelection" -> NoToggle
                        [] OTHER -> lastToggle)
    /\ pending' = NoUpdate
    /\ pc' = "drawerEffect"
    /\ UNCHANGED <<storage, foreign, apiSet, open, panelCart, timers, lastRead>>

\* CartDrawer's effect (deps [onQty, onRemove, cart]; onQty is a new closure on every
\* render of PCShop): publishes the API and dispatches the refresh signal
CartDrawerEffect ==
    /\ UNCHANGED <<queryVars, lastClick>>
    /\ pc = "drawerEffect"
    /\ apiSet' = TRUE
    /\ UNCHANGED storage
    /\ Sync("effectRefresh", IF cartChanged THEN "persistEffect" ELSE "idle")
    /\ UNCHANGED <<cart, pending, cartChanged, foreign, open, timers, selected,
                   lastOp, lastToggle>>

\* faulty variant: the effect has no dependency on cart and runs on mount only
PersistEffect_MountOnly ==
    /\ UNCHANGED <<queryVars, lastClick>>
    /\ pc = "persistEffect"
    /\ storage' = (IF lastOp.intent = "none" THEN JSONStringify(cart) ELSE storage)
    /\ foreign' = (IF lastOp.intent = "none" THEN FALSE ELSE foreign)
    /\ pc' = "idle"
    /\ UNCHANGED <<cart, pending, cartChanged, apiSet, open, panelCart, timers,
                   selected, lastOp, lastRead, lastToggle>>

\* PCShop's effect (deps [cart]): localStorage.setItem('pcshop_cart', JSON.stringify(cart))
PersistEffect ==
    /\ UNCHANGED <<queryVars, lastClick>>
    /\ pc = "persistEffect"
    /\ storage' = JSONStringify(cart)
    /\ foreign' = FALSE
    /\ pc' = "idle"
    /\ UNCHANGED <<cart, pending, cartChanged, apiSet, open, panelCart, timers,
                   selected, lastOp, lastRead, lastToggle>>

----------------------------------------------------------------------------
(* Intents *)

Enqueue(u) ==
    /\ pending' = u
    /\ pc' = "render"

\* onAdd={() => addToCart(p.id)} of a product card, row or the detail modal; no code
\* disables these buttons while the cart panel is open (the panel's overlay stops
\* the pointer, not keyboard focus)
AddToCart(id) ==
    /\ UNCHANGED queryVars
    /\ lastClick' = "card"
    /\ pc = "idle"
    /\ (IF Has(cart, id) THEN Get(cart, id) ELSE 0) < MaxQty
    /\ Enqueue(Update("addToCart", id, 1))
    /\ UNCHANGED <<cart, cartChanged, storage, foreign, apiSet, open, panelCart,
                   timers, selected, lastOp, lastRead, lastToggle>>

\* setLayout / setShowFilters / setDetail: PCShop re-renders with its cart, query and
\* selection untouched
LayoutIntent ==
    /\ UNCHANGED <<queryVars, lastClick>>
    /\ pc = "idle"
    /\ Enqueue(Update("layout", "", 0))
    /\ UNCHANGED <<cart, cartChanged, storage, foreign, apiSet, open, panelCart,
                   timers, selected, lastOp, lastRead, lastToggle>>

\* CartButton: onClick={() => setOpen(true)}; CartPanel mounts with its own read
OpenCart ==
    /\ UNCHANGED <<queryVars, lastClick>>
    /\ pc = "idle"
    /\ ~open
    /\ open' = TRUE
    /\ LET r == LoadCart(storage)
       IN  /\ lastRead' = Read("CartPanel", storage, r)
           /\ panelCart' = r.obj
           /\ pc' = (IF r.isNull \/ ~PanelRenders(r.obj) THEN "crashed" ELSE "idle")
    /\ UNCHANGED <<cart, pending, cartChanged, storage, foreign, apiSet, timers,
                   selected, lastOp, lastToggle>>

\* onClose: setOpen(false); CartPanel unmounts and its listeners are removed
CloseCart ==
    /\ UNCHANGED <<queryVars, lastClick>>
    /\ pc = "idle"
    /\ open
    /\ open' = FALSE
    /\ panelCart' = EmptyObj
    /\ UNCHANGED <<pc, cart, pending, cartChanged, storage, foreign, apiSet, timers,
                   selected, lastOp, lastRead, lastToggle>>

\* CartPanel.setQty(id, qty): window.pcshop_setQty?.(id, qty); setTimeout(dispatch, 0)
PanelSetQty(id, qty) ==
    /\ UNCHANGED queryVars
    /\ timers < MaxTimers
    /\ timers' = timers + 1
    /\ IF apiSet
       THEN Enqueue(Update("setQty", id, qty))
       ELSE UNCHANGED <<pending, pc>>
    /\ UNCHANGED <<cart, cartChanged, storage, foreign, apiSet, open, panelCart,
                   selected, lastOp, lastRead, lastToggle>>

\* the '+' button of a panel row: setQty(id, q + 1)
PanelPlus(i) ==
    /\ pc = "idle"
    /\ open
    /\ i \in 1..Len(panelCart)
    /\ panelCart[i].qty + 1 <= MaxQty
    /\ lastClick' = "plus"
    /\ PanelSetQty(panelCart[i].id, panelCart[i].qty + 1)

\* the '-' button of a panel row: setQty(id, Math.max(0, q - 1))
PanelMinus(i) ==
    /\ pc = "idle"
    /\ open
    /\ i \in 1..Len(panelCart)
    /\ lastClick' = "minus"
    /\ PanelSetQty(panelCart[i].id,
                   IF panelCart[i].qty - 1 > 0 THEN panelCart[i].qty - 1 ELSE 0)

\* the trash button of a panel row: window.pcshop_remove?.(id); setTimeout(dispatch, 0)
PanelRemove(i) ==
    /\ UNCHANGED queryVars
    /\ lastClick' = "trash"
    /\ pc = "idle"
    /\ open
    /\ i \in 1..Len(panelCart)
    /\ timers < MaxTimers
    /\ timers' = timers + 1
    /\ IF apiSet
       THEN Enqueue(Update("removeFromCart", panelCart[i].id, 0))
       ELSE UNCHANGED <<pending, pc>>
    /\ UNCHANGED <<cart, cartChanged, storage, foreign, apiSet, open, panelCart,
                   selected, lastOp, lastRead, lastToggle>>

\* a CartPanel timer runs: window.dispatchEvent(new Event('pcshop_cart_refresh'))
TimerFire ==
    /\ UNCHANGED <<queryVars, lastClick>>
    /\ pc = "idle"
    /\ timers > 0
    /\ timers' = timers - 1
    /\ UNCHANGED storage
    /\ Sync("timerRefresh", "idle")
    /\ UNCHANGED <<cart, pending, cartChanged, foreign, apiSet, open, selected,
                   lastOp, lastToggle>>

\* another document writes the key: this window gets a 'storage' event
StorageEvent(t) ==
    /\ UNCHANGED <<queryVars, lastClick>>
    /\ pc = "idle"
    /\ t # storage
    /\ storage' = t
    /\ foreign' = TRUE
    /\ Sync("storageEvent", "idle")
    /\ UNCHANGED <<cart, pending, cartChanged, apiSet, open, timers, selected,
                   lastOp, lastToggle>>

\* the search box: onChange={(e) => setQuery(e.target.value)}
SetQuery(text) ==
    /\ pc = "idle"
    /\ text # query
    /\ Enqueue(QueryUpdate("setQuery", text, 0, ""))
    /\ UNCHANGED <<cart, cartChanged, storage, foreign, apiSet, open, panelCart,
                   timers, selected, lastOp, lastRead, lastToggle, queryVars, lastClick>>

\* the range input: onChange={(e) => setMinRam(parseInt(e.target.value, 10))}
SetMinRam(gb) ==
    /\ pc = "idle"
    /\ gb # minRam
    /\ Enqueue(QueryUpdate("setMinRam", <<>>, gb, ""))
    /\ UNCHANGED <<cart, cartChanged, storage, foreign, apiSet, open, panelCart,
                   timers, selected, lastOp, lastRead, lastToggle, queryVars, lastClick>>

\* the select: onChange={(e) => setSort(e.target.value as SortKey)}
SetSort(key) ==
    /\ pc = "idle"
    /\ key # sort
    /\ Enqueue(QueryUpdate("setSort", <<>>, 0, key))
    /\ UNCHANGED <<cart, cartChanged, storage, foreign, apiSet, open, panelCart,
                   timers, selected, lastOp, lastRead, lastToggle, queryVars, lastClick>>

\* EmptyState, shown when nothing is listed: onReset sets '', 0 and 'featured'
ResetFilters ==
    /\ pc = "idle"
    /\ Len(filtered(query, minRam, sort)) = 0
    /\ Enqueue(QueryUpdate("resetFilters", <<>>, 0, "featured"))
    /\ UNCHANGED <<cart, cartChanged, storage, foreign, apiSet, open, panelCart,
                   timers, selected, lastOp, lastRead, lastToggle, queryVars, lastClick>>

\* onSelect={() => toggleSelect(p.id)}
ToggleSelect(id) ==
    /\ UNCHANGED <<queryVars, lastClick>>
    /\ pc = "idle"
    /\ Enqueue(Update("toggleSelect", id, 0))
    /\ UNCHANGED <<cart, cartChanged, storage, foreign, apiSet, open, panelCart,
                   timers, selected, lastOp, lastRead, lastToggle>>

\* CompareBar onClear={() => setSelected([])}
ClearSelection ==
    /\ UNCHANGED <<queryVars, lastClick>>
    /\ pc = "idle"
    /\ Enqueue(Update("clearSelection", "", 0))
    /\ UNCHANGED <<cart, cartChanged, storage, foreign, apiSet, open, panelCart,
                   timers, selected, lastOp, lastRead, lastToggle>>

----------------------------------------------------------------------------
(* Specifications *)

\* the cart store and its readers; intents that leave the cart alone are LayoutIntent
Next ==
    \/ Mount
    \/ PCShopRender
    \/ CartDrawerEffect
    \/ PersistEffect
    \/ \E id \in CartIds : AddToCart(id)
    \/ LayoutIntent
    \/ OpenCart
    \/ CloseCart
    \/ \E i \in 1..Len(panelCart) : PanelPlus(i)
    \/ \E i \in 1..Len(panelCart) : PanelMinus(i)
    \/ \E i \in 1..Len(panelCart) : PanelRemove(i)
    \/ TimerFire
    \/ \E t \in ForeignTexts : StorageEvent(t)

Spec == Init /\ [][Next]_vars

\* the compare selection, which no cart handler touches: its intents on their own
SelNext ==
    \/ Mount
    \/ PCShopRender
    \/ CartDrawerEffect
    \/ PersistEffect
    \/ \E i \in 1..Len(CatalogIds) : ToggleSelect(CatalogIds[i])
    \/ ClearSelection

SelSpec == Init /\ [][SelNext]_vars

\* the cart panel on its own: its clicks and the deliveries of the refresh signal,
\* with no other writer of the cart
PanelNext ==
    \/ Mount
    \/ PCShopRender
    \/ CartDrawerEffect
    \/ PersistEffect
    \/ OpenCart
    \/ CloseCart
    \/ \E i \in 1..Len(panelCart) : PanelPlus(i)
    \/ \E i \in 1..Len(panelCart) : PanelMinus(i)
    \/ \E i \in 1..Len(panelCart) : PanelRemove(i)
    \/ TimerFire

PanelSpec == Init /\ [][PanelNext]_vars

\* the query engine, which no cart or selection handler touches: its intents on their own
QueryNext ==
    \/ Mount
    \/ PCShopRender
    \/ CartDrawerEffect
    \/ PersistEffect
    \/ \E text \in Queries : SetQuery(text)
    \/ \E gb \in RamSteps : SetMinRam(gb)
    \/ \E key \in SortKeys : SetSort(key)
    \/ ResetFilters

QuerySpec == Init /\ [][QueryNext]_vars

----------------------------------------------------------------------------
(* Properties *)

\* quantity of id in o, 0 when o has no entry for it
Quantity(o, id) == IF Has(o, id) THEN Get(o, id) ELSE 0

\* every entry but the one for id is the same in o1 and o2
SameElsewhere(o1, o2, id) ==
    \A x \in (Keys(o1) \cup Keys(o2)) \ {id} :
        Has(o1, x) /\ Has(o2, x) /\ Get(o1, x) = Get(o2, x)

AsSet(s) == {s[i] : i \in 1..Len(s)}

\* a cart mutation has been processed to the end: no render, effect or timer is
\* pending, and no other document has overwritten the record since
Quiescent ==
    /\ pc = "idle"
    /\ timers = 0
    /\ ~foreign
    /\ lastOp.intent # "none"

\* C1: once a cart mutation has been fully processed, the open cart panel's snapshot
\* equals the cart of PCShop (the header badge is rendered from that cart itself).
C1_ReadersObserveMutation == (Quiescent /\ open) => panelCart = cart

\* C2: whenever the panel re-reads storage on a refresh signal caused by a mutation,
\* storage already holds the mapping that resulted from the mutation: for the
\* dispatch of CartDrawer's effect, and for the deferred dispatch of CartPanel.
C2_PersistBeforeRefresh ==
    /\ (pc = "persistEffect" /\ open /\ ~foreign /\ lastOp.intent # "none"
            /\ lastRead.by = "effectRefresh")
        => storage = JSONStringify(cart)
    /\ (pc = "idle" /\ open /\ ~foreign /\ lastOp.intent # "none"
            /\ lastRead.by = "timerRefresh")
        => storage = JSONStringify(cart)

\* C3: from the cart loaded at startup on, no cart entry has a quantity <= 0.
C3_NoNonPositiveQuantity ==
    pc # "boot" => \A i \in 1..Len(cart) : cart[i].qty > 0

\* C4: a read of the record that finds it absent or malformed yields the empty
\* mapping and raises nothing, in PCShop's and CartPanel's initial load and in
\* CartPanel's re-read on a 'storage' or 'pcshop_cart_refresh' event.
C4_MalformedReadsEmpty ==
    (lastRead.by # "none" /\ lastRead.malformed) =>
        /\ ~lastRead.threw
        /\ pc # "crashed"
        /\ (lastRead.by = "PCShop" /\ lastOp.intent = "none") => cart = EmptyObj
        /\ (lastRead.by # "PCShop" /\ open) => panelCart = EmptyObj

\* C5: the selection never holds more than 3 ids nor the same id twice, and a toggle
\* of an absent id while 3 ids are selected leaves the selection as it was.
C5_SelectionBounded ==
    /\ Len(selected) <= 3
    /\ \A i, j \in 1..Len(selected) : selected[i] = selected[j] => i = j
    /\ (lastToggle.id # "" /\ Len(lastToggle.before) = 3
            /\ ~Includes(lastToggle.before, lastToggle.id))
        => selected = lastToggle.before

C5_Witness ==
    /\ lastToggle.id # ""
    /\ Len(lastToggle.before) = 3
    /\ ~Includes(lastToggle.before, lastToggle.id)
    /\ pc = "idle"

\* C6 as claimed: after toggleSelect(id), a second toggleSelect(id) gives back the
\* selection sequence that preceded the first, wherever the id stood in it.
C6_ToggleTwiceRestoresSequence ==
    lastToggle.id # "" =>
        toggleSelectUpd(selected, lastToggle.id) = lastToggle.before

\* C6 amended: after toggleSelect(id), a second toggleSelect(id) gives back the same
\* set of ids; the sequence itself is restored when the id was absent or stood last,
\* and otherwise the id has moved to the end.
C6_ToggleTwiceRestoresSet ==
    lastToggle.id # "" =>
        LET before == lastToggle.before
            id     == lastToggle.id
            twice  == toggleSelectUpd(selected, id)
        IN  /\ AsSet(twice) = AsSet(before)
            /\ Len(twice) = Len(before)
            /\ IF ~Includes(before, id) \/ before[Len(before)] = id
               THEN twice = before
               ELSE twice = Append(SelectSeq(before, LAMBDA x : x # id), id)

C6_Witness ==
    /\ lastToggle.id # ""
    /\ Len(lastToggle.before) = 3
    /\ lastToggle.before[1] = lastToggle.id
    /\ Len(selected) = 2

\* C7: once startup or a cart mutation has been processed, the record holds the
\* serialization of the whole cart of PCShop, and parses back to the same mapping
\* (as long as no other document has overwritten it).
C7_StorageHoldsCart ==
    (pc = "idle" /\ ~foreign) =>
        /\ storage = JSONStringify(cart)
        /\ ~JSONParse(storage).threw
        /\ SameMapping(JSONParse(storage).obj, cart)

C7_Witness ==
    /\ pc = "idle"
    /\ ~foreign
    /\ lastOp.intent = "removeFromCart"
    /\ Len(lastOp.before) = 2
    /\ Len(cart) = 1

\* C8: addToCart(id, qty) sets the entry for id to its previous quantity plus qty
\* (qty if absent) and leaves the other entries alone; two adds of A on the empty
\* cart give A: 2, and setQty(A, 0) on that removes A, leaving 0 items.
C8_AddIncrements ==
    /\ lastOp.intent = "addToCart" =>
        /\ lastOp.qty >= 1
        /\ Has(cart, lastOp.id)
        /\ Get(cart, lastOp.id) = Quantity(lastOp.before, lastOp.id) + lastOp.qty
        /\ Keys(cart) = Keys(lastOp.before) \cup {lastOp.id}
        /\ SameElsewhere(lastOp.before, cart, lastOp.id)
    /\ (lastOp.intent = "addToCart" /\ lastOp.id = "A"
            /\ lastOp.before = addToCartUpd(EmptyObj, "A", 1))
        => (Get(cart, "A") = 2 /\ totalItems(cart) = 2)
    /\ (lastOp.intent = "setQty" /\ lastOp.id = "A" /\ lastOp.qty = 0
            /\ lastOp.before = <<Entry("A", 2)>>)
        => (~Has(cart, "A") /\ totalItems(cart) = 0)

C8_Witness ==
    /\ lastOp.intent = "addToCart"
    /\ lastOp.id = "A"
    /\ lastOp.before = <<Entry("B", 1), Entry("A", 1)>>
    /\ pc = "idle"

\* the end of the scenario of C8: setQty(A, 0) has been applied to {A: 2}
C8_ScenarioReached ==
    /\ lastOp.intent = "setQty"
    /\ lastOp.id = "A"
    /\ lastOp.qty = 0
    /\ lastOp.before = <<Entry("A", 2)>>

\* C9: setQty(id, qty) with qty <= 0 gives the cart removeFromCart(id) gives (no entry
\* for id); with qty > 0 the entry for id is exactly qty whatever it was; in both
\* cases the other entries are as before.
C9_SetQtyExact ==
    lastOp.intent = "setQty" =>
        /\ IF lastOp.qty <= 0
           THEN /\ cart = removeFromCartUpd(lastOp.before, lastOp.id)
                /\ ~Has(cart, lastOp.id)
           ELSE /\ Has(cart, lastOp.id)
                /\ Get(cart, lastOp.id) = lastOp.qty
                /\ Keys(cart) = Keys(lastOp.before) \cup {lastOp.id}
        /\ SameElsewhere(lastOp.before, cart, lastOp.id)

C9_Witness ==
    /\ lastOp.intent = "setQty"
    /\ lastOp.qty = 1
    /\ Len(lastOp.before) = 2
    /\ Quantity(lastOp.before, lastOp.id) = 2

\* the removing case of C9: setQty(id, 0) has been applied to a cart holding id
C9_RemovalReached ==
    /\ lastOp.intent = "setQty"
    /\ lastOp.qty = 0
    /\ Has(lastOp.before, lastOp.id)
    /\ Len(lastOp.before) = 2

\* C10: a second setQty(id, q) right after setQty(id, q) leaves the cart as the first
\* left it.
C10_SetQtyIdempotent ==
    /\ lastOp.intent = "setQty" => setQtyUpd(cart, lastOp.id, lastOp.qty) = cart
    /\ (pc = "render" /\ pending.intent = "setQty" /\ lastOp.intent = "setQty"
            /\ pending.id = lastOp.id /\ pending.qty = lastOp.qty)
        => ApplyCart(pending, cart) = cart

\* the second of two equal setQty calls is about to be applied
C10_Witness ==
    /\ pc = "render"
    /\ pending.intent = "setQty"
    /\ lastOp.intent = "setQty"
    /\ pending.id = lastOp.id
    /\ pending.qty = lastOp.qty
    /\ pending.qty > 0
    /\ Len(cart) = 2

\* C11: removeFromCart(id) deletes the entry for id when there is one and leaves the
\* mapping as it was when there is none; every other entry keeps its quantity.
C11_RemoveDeletesOnlyId ==
    lastOp.intent = "removeFromCart" =>
        /\ ~Has(cart, lastOp.id)
        /\ Keys(cart) = Keys(lastOp.before) \ {lastOp.id}
        /\ SameElsewhere(lastOp.before, cart, lastOp.id)
        /\ ~Has(lastOp.before, lastOp.id) => cart = lastOp.before

C11_Witness ==
    /\ lastOp.intent = "removeFromCart"
    /\ Has(lastOp.before, lastOp.id)
    /\ Len(lastOp.before) = 2
    /\ pc = "idle"

\* the no-op case of C11: removeFromCart(id) has been applied to a cart without id
C11_AbsentReached ==
    /\ lastOp.intent = "removeFromCart"
    /\ ~Has(lastOp.before, lastOp.id)
    /\ Len(lastOp.before) = 1

RECURSIVE CatalogSum(_, _)
\* sum over the catalog, product by product, of quantity in o times unit price
CatalogSum(o, i) ==
    IF i > Len(PRODUCTS) THEN 0
    ELSE Quantity(o, PRODUCTS[i].id) * PRODUCTS[i].price + CatalogSum(o, i + 1)

RECURSIVE KeySum(_, _)
\* sum of the quantities of o over a set of ids
KeySum(o, ids) ==
    IF ids = {} THEN 0
    ELSE LET id == CHOOSE x \in ids : TRUE
         IN  Get(o, id) + KeySum(o, ids \ {id})

\* C12: the total item count is the sum of all quantities, the total price the sum of
\* quantity x unit price over the entries whose id is in the catalog (others are
\* skipped); {A: 2, B: 1} costs 2 x price(A) + price(B); header and panel agree.
C12_TotalsAreSums ==
    (pc \notin {"boot", "crashed"}) =>
        /\ totalItems(cart) = KeySum(cart, Keys(cart))
        /\ totalPrice(cart) = CatalogSum(cart, 1)
        /\ panelTotal(cart) = totalPrice(cart)
        /\ open => panelTotal(panelCart) = CatalogSum(panelCart, 1)
        /\ SameMapping(cart, <<Entry("A", 2), Entry("B", 1)>>)
            => totalPrice(cart) = 2 * ProductA.price + 1 * ProductB.price

\* the cart holds an entry that is skipped and one that is priced
C12_Witness ==
    /\ pc = "idle"
    /\ Has(cart, UnknownId)
    /\ Has(cart, "A")
    /\ Get(cart, "A") = 2

\* the example of C12: the cart is {A: 2, B: 1}
C12_ExampleReached ==
    /\ pc = "idle"
    /\ SameMapping(cart, <<Entry("A", 2), Entry("B", 1)>>)


----------------------------------------------------------------------------
(* The listed products *)

Listed == filtered(query, minRam, sort)

InList(list, id) == \E i \in 1..Len(list) : list[i].id = id

\* the spec text of a product: title, cpu, gpu, ram, storage and the space-joined
\* tags, which are no text at all for a product without tags
SpecText(p) ==
    p.title \o <<" ">> \o p.cpu \o <<" ">> \o p.gpu \o <<" ">> \o p.ram \o <<" ">>
        \o p.storage \o <<" ">> \o (IF p.hasTags THEN JoinTags(p.tags, 1) ELSE <<>>)

\* C13: every listed product holds the trimmed query as a case-insensitive substring
\* of its spec text (or the query is empty or blank) and has parsed RAM >= minRam;
\* D ("16GB DDR4") is not listed with minRam = 32 and is listed with minRam = 0.
C13_FilterSound ==
    pc = "idle" =>
        LET q == toLowerCase(trim(query))
            F == Listed
        IN  /\ \A i \in 1..Len(F) :
                /\ q = <<>> \/ includes(toLowerCase(SpecText(F[i])), q)
                /\ parseRamGB(F[i].ram) >= minRam
            /\ minRam = 32 => ~InList(F, "D")
            /\ (minRam = 0 /\ q = <<>>) => InList(F, "D")

\* the RAM half of C13 on its own, which the code keeps
C13_RamThreshold ==
    pc = "idle" =>
        LET F == Listed
        IN  /\ \A i \in 1..Len(F) : parseRamGB(F[i].ram) >= minRam
            /\ minRam = 32 => ~InList(F, "D")
            /\ (minRam = 0 /\ trim(query) = <<>>) => InList(F, "D")

\* the example of C13: the threshold 32 is set and C is listed while D is not
C13_ExampleReached ==
    /\ pc = "idle"
    /\ minRam = 32
    /\ LET F == Listed IN InList(F, "C") /\ ~InList(F, "D")

----------------------------------------------------------------------------
(* Sort order of the list *)

\* the place of a product in the catalog
CatalogIndex(p) == FindProduct(p.id)

\* C14: sorted by price the prices of the list never decrease from one row to the
\* next; sorted by ram the parsed RAM values never increase.
C14_SortedByPriceAndRam ==
    pc = "idle" =>
        LET F == Listed
        IN  \A i \in 1..(Len(F) - 1) :
                /\ sort = "price" => F[i].price <= F[i + 1].price
                /\ sort = "ram" => parseRamGB(F[i].ram) >= parseRamGB(F[i + 1].ram)

\* the list is sorted by ram and has products of different RAM sizes
C14_Witness ==
    /\ pc = "idle"
    /\ sort = "ram"
    /\ LET F == Listed
       IN  Len(F) >= 2 /\ parseRamGB(F[1].ram) > parseRamGB(F[Len(F)].ram)

\* the list is sorted by price and has several rows
C14_PriceReached ==
    /\ pc = "idle"
    /\ sort = "price"
    /\ Len(Listed) >= 2

\* C15: with the key featured the list is the kept products in catalog order; with
\* any other key two rows that tie on the key stand in catalog order; and the list
\* sorted by price, all prices being equal, is the featured list.
C15_StableOrder ==
    pc = "idle" =>
        LET F == Listed
        IN  /\ sort = "featured" =>
                F = SelectSeq(PRODUCTS, LAMBDA p : Keeps(p, query, minRam))
            /\ \A i, j \in 1..Len(F) :
                (i < j /\ compare(sort, F[i], F[j]) = 0)
                    => CatalogIndex(F[i]) < CatalogIndex(F[j])
            /\ sort = "price" => F = filtered(query, minRam, "featured")

\* rows that tie on the key are listed: C and D under cpu, E and F under gpu
C15_Witness ==
    /\ pc = "idle"
    /\ sort \in {"cpu", "gpu"}
    /\ LET F == Listed
       IN  \E i, j \in 1..Len(F) : i < j /\ compare(sort, F[i], F[j]) = 0

\* the list is sorted by price and is the whole catalog
C15_PriceReached ==
    /\ pc = "idle"
    /\ sort = "price"
    /\ Len(Listed) = Len(PRODUCTS)

\* r is the rank of value in order: the index, from 0, of the first entry that is a
\* case-insensitive substring of value, or the length of order when there is none
IsRank(r, value, order) ==
    LET hit(k) == includes(toLowerCase(value), toLowerCase(order[k]))
    IN  \/ /\ r = Len(order)
           /\ \A k \in 1..Len(order) : ~hit(k)
        \/ /\ r + 1 \in 1..Len(order)
           /\ hit(r + 1)
           /\ \A k \in 1..r : ~hit(k)

\* C16: sorted by cpu (gpu) the tier ranks of the list never decrease, the rank being
\* the index of the first tier found in the cpu (gpu) string whatever its case, or the
\* length of the tier list; A (i9-14900K, rank 0) stands before C (i5-14600K, rank 2).
C16_SortedByTier ==
    pc = "idle" =>
        LET F == Listed
        IN  /\ \A i \in 1..Len(F) :
                /\ IsRank(cpuTier(F[i].cpu), F[i].cpu, CpuTiers)
                /\ IsRank(gpuTier(F[i].gpu), F[i].gpu, GpuTiers)
            /\ \A i \in 1..(Len(F) - 1) :
                /\ sort = "cpu" => cpuTier(F[i].cpu) <= cpuTier(F[i + 1].cpu)
                /\ sort = "gpu" => gpuTier(F[i].gpu) <= gpuTier(F[i + 1].gpu)
            /\ cpuTier(ProductA.cpu) = 0
            /\ cpuTier(ProductC.cpu) = 2
            /\ sort = "cpu" =>
                \A i, j \in 1..Len(F) : (F[i].id = "A" /\ F[j].id = "C") => i < j

\* the list is sorted by cpu and holds both A and C
C16_Witness ==
    /\ pc = "idle"
    /\ sort = "cpu"
    /\ LET F == Listed IN InList(F, "A") /\ InList(F, "C")

\* the list is sorted by gpu and has rows of different ranks
C16_GpuReached ==
    /\ pc = "idle"
    /\ sort = "gpu"
    /\ LET F == Listed
       IN  Len(F) >= 2 /\ gpuTier(F[1].gpu) < gpuTier(F[Len(F)].gpu)

----------------------------------------------------------------------------
(* Clicks in the cart panel *)

\* the click last handled was the given panel button and PCShop has applied it
Applied(button) ==
    /\ pc \notin {"boot", "render", "crashed"}
    /\ lastClick = button
    /\ lastOp.intent = "setQty"

\* C17: a '+' click in the cart panel raises the quantity of its id in the main cart
\* by exactly one and a '-' click lowers it by one, the entry going at 0, whether or
\* not the refresh of the click before has reached the panel; n clicks in a row
\* therefore change the quantity by n.
C17_PanelClicksCount ==
    /\ Applied("plus") =>
            Quantity(cart, lastOp.id) = Quantity(lastOp.before, lastOp.id) + 1
    /\ Applied("minus") =>
            /\ Quantity(cart, lastOp.id) =
                    (IF Quantity(lastOp.before, lastOp.id) > 0
                     THEN Quantity(lastOp.before, lastOp.id) - 1 ELSE 0)
            /\ Quantity(cart, lastOp.id) = 0 => ~Has(cart, lastOp.id)

\* what the code does keep: the click sets the quantity the panel showed, plus or
\* minus one
C17_ClickSetsShownQuantity ==
    /\ Applied("plus") => Quantity(cart, lastOp.id) = lastOp.qty
    /\ Applied("minus") => Quantity(cart, lastOp.id) = lastOp.qty

\* a second '+' is handled while the refresh of the first is still in a timer
C17_SecondClickReached ==
    /\ Applied("plus")
    /\ timers = 2
    /\ Has(lastOp.before, lastOp.id)

\* the lost click on a well-formed cart: A stood at 2 before the second '+' and after
C17_LostClickReached ==
    /\ Applied("plus")
    /\ timers = 2
    /\ Quantity(lastOp.before, lastOp.id) = 2
    /\ Quantity(cart, lastOp.id) = 2

----------------------------------------------------------------------------
(* Refresh notifications come to an end *)

\* what is still to run without a further intent: the timers, and the render and
\* effects of the current pass
Work ==
    timers + (CASE pc = "boot"          -> 4
                [] pc = "render"        -> 3
                [] pc = "drawerEffect"  -> 2
                [] pc = "persistEffect" -> 1
                [] OTHER                -> 0)

\* a render, an effect or a timer is due
Busy == pc \in {"boot", "render", "drawerEffect", "persistEffect"}
            \/ (pc = "idle" /\ timers > 0)

SystemStep == Mount \/ PCShopRender \/ CartDrawerEffect \/ PersistEffect \/ TimerFire

\* C18: every step that is no user intent (a render, an effect with its dispatch and
\* the handlers it runs, a timer with its dispatch) lowers Work, a natural number,
\* and such a step can be taken while one is due: no handler starts another pass, and
\* after an intent the page comes to rest with no effect and no timer left.
C18_RefreshTerminates ==
    /\ [](Busy => ENABLED SystemStep)
    /\ [][(pc # "idle" \/ timers' < timers) => (Work' < Work /\ Work' >= 0)]_vars

\* the page is at rest after a click in the panel: its render, both effects and its
\* timer have run
C18_Witness ==
    /\ pc = "idle"
    /\ timers = 0
    /\ open
    /\ lastClick = "plus"
    /\ lastOp.intent = "setQty"
    /\ lastRead.by = "timerRefresh"

====
